---- MODULE Spec2Model ----
(***************************************************************************)
(* Model of pex/cli/commands/lock.py: the `pex3 lock create` and           *)
(* `pex3 lock export` subcommands (Lock._create, Lock._export).            *)
(*                                                                         *)
(* One invocation of one subcommand is modelled.  The invocation's inputs  *)
(* (options and the behaviour of the collaborators lock.py calls) are      *)
(* chosen when the subcommand is invoked; after that every step of the     *)
(* handler is one action, sequenced by pc in the order of the source.      *)
(***************************************************************************)
EXTENDS Naturals, Sequences, FiniteSets

VARIABLES
    pc,               \* position in the running handler
    options,          \* self.options: [command, format, lockfile]
    env,              \* what the running subcommand's collaborators will answer
    lf,               \* the Lockfile: loaded (_export) or assembled (_create)
    targets,          \* _export: target_configuration.unique_targets()
    stream,           \* _export: the pairs lf.select(targets) yielded
    selected_locks,   \* _export: the defaultdict's items, in the order items() gives
    locked_resolve,   \* _export: the resolve popped for emission
    requirements,     \* _create: list of plain requirements
    local_projects,   \* _create: list of LocalProjectRequirement
    constraints,      \* _create: tuple of constraint requirements
    downloaded,       \* _create: what resolver.download returned
    sink,             \* self.output(...): [opens, open, content]
    result,           \* "None" | "Ok" | "Error" | "Raised"
    message,          \* the Error's message, as the fields it is formatted from
    log               \* the collaborator calls made so far, in order

vars == <<pc, options, env, lf, targets, stream, selected_locks, locked_resolve,
          requirements, local_projects, constraints, downloaded, sink, result,
          message, log>>

-----------------------------------------------------------------------------
(* Bounds of the model.                                                    *)

MaxLocks == 2
MaxTargets == 2
MaxReqs == 2
MaxConstraints == 2

-----------------------------------------------------------------------------
(* Values.                                                                 *)

\* ExportFormat: PIP = "pip", PEP_665 = "pep-665".
PIP == "pip"
PEP_665 == "pep-665"
ExportFormat == {PIP, PEP_665}

\* What lockfile.load finds at the path.
LockStates == {"valid", "malformed", "missing"}

LockfilePath == "lock.json"

\* DistributionTarget values.
Targets == {"cp39-linux", "cp310-linux", "cp310-macosx"}

\* LockedResolve values: a platform tag and the pinned requirement lines.
\* Two of them carry the same platform tag.
LockedResolves ==
    { [platform_tag |-> "linux_x86_64",  locked |-> <<"a==1">>],
      [platform_tag |-> "macosx_x86_64", locked |-> <<"a==1", "b==2">>],
      [platform_tag |-> "linux_x86_64",  locked |-> <<"a==2">>] }

\* Parsed requirement entries: a plain requirement or a local project.
ReqNames == {"a", "b"}
ProjectPaths == {"/src/p", "/src/q"}
ParsedRequirements ==
    { [kind |-> "requirement", requirement |-> r, path |-> ""] : r \in ReqNames }
    \cup { [kind |-> "local_project", requirement |-> "", path |-> p] : p \in ProjectPaths }
ParsedConstraints ==
    { [kind |-> "constraint", requirement |-> r] : r \in {"a<2", "b<3"} }

SeqsUpTo(S, n) == UNION { [1..k -> S] : k \in 0..n }

Range(s) == { s[i] : i \in 1..Len(s) }

IsInjective(s) == \A i, j \in 1..Len(s) : s[i] = s[j] => i = j

NoMessage == [kind |-> "none"]
NoLockfile == [present |-> FALSE]
NoDownload == [present |-> FALSE]
ClosedSink == [opens |-> 0, open |-> FALSE, writes |-> 0, content |-> <<>>]


-----------------------------------------------------------------------------
(* Collaborators outside lock.py.                                          *)

\* pex.common.pluralize(subject, noun): the noun for a count of 1, else
\* the noun with "s".
Plural(noun) == CASE noun = "lock" -> "locks"

Pluralize(count, noun) == IF count = 1 THEN noun ELSE Plural(noun)

\* The pairs Lockfile.select yields for one target: one per stored locked
\* resolve that applies to it, in stored order.
RECURSIVE SelectOne(_, _, _, _)
SelectOne(locks, target, applies, i) ==
    IF i > Len(locks) THEN <<>>
    ELSE (IF i \in applies THEN << <<target, locks[i]>> >> ELSE <<>>)
         \o SelectOne(locks, target, applies, i + 1)

\* Lockfile.select(targets): the (target, locked resolve) pairs, target by
\* target in the order given; applicable[k] is the set of positions of the
\* stored locked resolves that apply to the k-th target.
RECURSIVE Select(_, _, _, _)
Select(locks, tgts, applicable, k) ==
    IF k > Len(tgts) THEN <<>>
    ELSE SelectOne(locks, tgts[k], applicable[k], 1)
         \o Select(locks, tgts, applicable, k + 1)

\* LockedResolve.emit_requirements(output): one line per pinned requirement.
EmitRequirements(lr) == lr.locked

\* json_codec.as_json_data(lf): the document's fields as structured data.
AsJsonData(doc) ==
    [requirements |-> doc.requirements, constraints |-> doc.constraints,
     locked_resolves |-> doc.locked_resolves]

\* Lockfile.create(...): the document records what it is handed.
LockfileCreate(reqs, cons, locks) ==
    [present |-> TRUE, requirements |-> reqs, constraints |-> cons,
     locked_resolves |-> locks]

\* The requirements resolver.download resolved: the given ones and what they
\* pulled in.
ResolvedSuperset(parsed) ==
    [i \in 1..Len(parsed) |-> parsed[i].requirement] \o <<"transitive-dep">>

-----------------------------------------------------------------------------
(* Initial state: no subcommand is running.                                *)

Init ==
    /\ pc = "idle"
    /\ options = [command |-> "none", format |-> PIP, lockfile |-> LockfilePath]
    /\ env = <<>>
    /\ lf = NoLockfile
    /\ targets = <<>>
    /\ stream = <<>>
    /\ selected_locks = <<>>
    /\ locked_resolve = <<>>
    /\ requirements = <<>>
    /\ local_projects = <<>>
    /\ constraints = <<>>
    /\ downloaded = NoDownload
    /\ sink = ClosedSink
    /\ result = "None"
    /\ message = NoMessage
    /\ log = <<>>

-----------------------------------------------------------------------------
(* pex3 lock export: Lock._export.                                         *)

\* The arguments and environment of one `export` invocation.
InvokeExport ==
    /\ pc = "idle"
    /\ \E format \in ExportFormat, state \in LockStates,
          locks \in SeqsUpTo(LockedResolves, MaxLocks),
          tgts \in { s \in SeqsUpTo(Targets, MaxTargets) : IsInjective(s) } :
         \E applicable \in [1..Len(tgts) -> SUBSET (1..Len(locks))] :
            /\ state # "valid" => locks = <<>>
            /\ options' = [command |-> "export", format |-> format,
                            lockfile |-> LockfilePath]
            /\ env' = [export |->
                          [lock_state |-> state, locked_resolves |-> locks,
                           targets |-> tgts, applicable |-> applicable]]
    /\ pc' = "export_format"
    /\ UNCHANGED <<lf, targets, stream, selected_locks, locked_resolve, requirements,
                   local_projects, constraints, downloaded, sink, result, message, log>>

\* Variant: the format is not checked before the lock document is loaded.
ExportCheckFormat_Skipped ==
    /\ pc = "export_format"
    /\ pc' = "export_load"
    /\ UNCHANGED <<options, env, lf, targets, stream, selected_locks, locked_resolve,
                   requirements, local_projects, constraints, downloaded, sink, result,
                   message, log>>

\* if self.options.format != ExportFormat.PIP: return Error(...)
ExportCheckFormat ==
    /\ pc = "export_format"
    /\ IF options.format # PIP
       THEN /\ result' = "Error"
            /\ message' = [kind |-> "unsupported_format", pip |-> PIP]
            /\ pc' = "done"
       ELSE /\ pc' = "export_load"
            /\ UNCHANGED <<result, message>>
    /\ UNCHANGED <<options, env, lf, targets, stream, selected_locks, locked_resolve,
                   requirements, local_projects, constraints, downloaded, sink, log>>

\* Variant: the ParseError is not caught and leaves _export as an exception.
ExportLoad_Uncaught ==
    /\ pc = "export_load"
    /\ log' = Append(log, "load")
    /\ IF env.export.lock_state # "valid"
       THEN /\ result' = "Raised"
            /\ pc' = "done"
            /\ UNCHANGED lf
       ELSE /\ lf' = LockfileCreate(<<>>, <<>>, env.export.locked_resolves)
            /\ pc' = "export_targets"
            /\ UNCHANGED result
    /\ UNCHANGED <<options, env, targets, stream, selected_locks, locked_resolve,
                   requirements, local_projects, constraints, downloaded, sink, message>>

\* lf = lockfile.load(lockfile_path); a ParseError becomes Error(str(e)).
ExportLoad ==
    /\ pc = "export_load"
    /\ log' = Append(log, "load")
    /\ IF env.export.lock_state # "valid"
       THEN /\ result' = "Error"
            /\ message' = [kind |-> "parse_error", lockfile |-> options.lockfile,
                           cause |-> env.export.lock_state]
            /\ pc' = "done"
            /\ UNCHANGED lf
       ELSE /\ lf' = LockfileCreate(<<>>, <<>>, env.export.locked_resolves)
            /\ pc' = "export_targets"
            /\ UNCHANGED <<result, message>>
    /\ UNCHANGED <<options, env, targets, stream, selected_locks, locked_resolve,
                   requirements, local_projects, constraints, downloaded, sink>>

\* targets = target_options.configure(self.options).unique_targets()
ExportTargets ==
    /\ pc = "export_targets"
    /\ targets' = env.export.targets
    /\ log' = Append(log, "targets")
    /\ pc' = "export_select"
    /\ UNCHANGED <<options, env, lf, stream, selected_locks, locked_resolve, requirements,
                   local_projects, constraints, downloaded, sink, result, message>>

\* selected_locks = defaultdict(list): no key yet.
EmptyMapping == [lock \in {} |-> <<>>]

\* selected_locks[locked_resolve].append(target): the mapping from locked
\* resolve to target list, with `target` added to the list of `lock`.  A
\* defaultdict fixes no place for a key: the mapping carries none.
AppendTarget(selected, target, lock) ==
    IF lock \in DOMAIN selected
    THEN [selected EXCEPT ![lock] = Append(@, target)]
    ELSE [k \in (DOMAIN selected) \cup {lock} |->
            IF k = lock THEN <<target>> ELSE selected[k]]

\* for target, locked_resolve in lf.select(targets): ...append(target)
RECURSIVE FoldSelected(_, _)
FoldSelected(pairs, selected) ==
    IF pairs = <<>> THEN selected
    ELSE FoldSelected(Tail(pairs), AppendTarget(selected, Head(pairs)[1], Head(pairs)[2]))

\* The orders in which the dict can hand out its items: insertion order on
\* the interpreters whose dict keeps it, hash order on the others (the
\* module runs on Python 2.7 too), so any order of the keys.
ItemsOrders(selected) ==
    { [i \in 1..Len(keys) |-> [lock |-> keys[i], targets |-> selected[keys[i]]]] :
        keys \in { ks \in [1..Cardinality(DOMAIN selected) -> DOMAIN selected] :
                     IsInjective(ks) } }

\* Lines 221-226; selected_locks holds the items as the dict will iterate
\* them from here on.
ExportSelect ==
    /\ pc = "export_select"
    /\ LET pairs == Select(lf.locked_resolves, targets, env.export.applicable, 1)
       IN /\ stream' = pairs
          /\ selected_locks' \in ItemsOrders(FoldSelected(pairs, EmptyMapping))
    /\ log' = Append(log, "select")
    /\ pc' = "export_decide"
    /\ UNCHANGED <<options, env, lf, targets, locked_resolve, requirements, local_projects,
                   constraints, downloaded, sink, result, message>>

\* Variant: the count is taken from the targets instead of the stored locks.
NoneApplicableError_TargetCount(locks, lockfile_path, tgts) ==
    [kind |-> "none_applicable",
     count |-> Len(tgts),
     locks |-> Pluralize(Len(tgts), "lock"),
     lockfile |-> lockfile_path,
     targets |-> [i \in 1..Len(tgts) |-> [index |-> i, target |-> tgts[i]]]]

\* The none-applicable Error of lines 236-248.
NoneApplicableError(locks, lockfile_path, tgts) ==
    [kind |-> "none_applicable",
     count |-> Len(locks),
     locks |-> Pluralize(Len(locks), "lock"),
     lockfile |-> lockfile_path,
     targets |-> [i \in 1..Len(tgts) |-> [index |-> i, target |-> tgts[i]]]]

\* Variant: every line shows the whole requested target list instead of its
\* group's targets.
MultipleLocksError_AllTargets(locks, lockfile_path, selected) ==
    [kind |-> "multiple_locks",
     pip |-> PIP,
     were |-> IF Len(locks) = 1 THEN "was" ELSE "were",
     count |-> Len(locks),
     locks |-> Pluralize(Len(locks), "lock"),
     lockfile |-> lockfile_path,
     targets |-> [i \in 1..Len(selected) |->
                    [index |-> i,
                     platform |-> selected[i].lock.platform_tag,
                     targets |-> targets]]]

\* The multiple-locks Error of lines 250-267.
MultipleLocksError(locks, lockfile_path, selected) ==
    [kind |-> "multiple_locks",
     pip |-> PIP,
     were |-> IF Len(locks) = 1 THEN "was" ELSE "were",
     count |-> Len(locks),
     locks |-> Pluralize(Len(locks), "lock"),
     lockfile |-> lockfile_path,
     targets |-> [i \in 1..Len(selected) |->
                    [index |-> i,
                     platform |-> selected[i].lock.platform_tag,
                     targets |-> selected[i].targets]]]

\* Variant: the single group's resolve is taken to be the first stored one.
ExportDecide_FirstStored ==
    /\ pc = "export_decide"
    /\ IF Len(selected_locks) = 1
       THEN /\ locked_resolve' = lf.locked_resolves[1]
            /\ selected_locks' = <<>>
            /\ pc' = "export_open"
            /\ UNCHANGED <<result, message>>
       ELSE /\ result' = "Error"
            /\ message' = IF selected_locks = <<>>
                          THEN NoneApplicableError(lf.locked_resolves, options.lockfile,
                                                   targets)
                          ELSE MultipleLocksError(lf.locked_resolves, options.lockfile,
                                                  selected_locks)
            /\ pc' = "done"
            /\ UNCHANGED <<locked_resolve, selected_locks>>
    /\ UNCHANGED <<options, env, lf, targets, stream, requirements, local_projects,
                   constraints, downloaded, sink, log>>

\* Variant: the empty mapping is not told apart and gets the multiple-locks
\* Error.
ExportDecide_NoEmptyCase ==
    /\ pc = "export_decide"
    /\ IF Len(selected_locks) = 1
       THEN /\ locked_resolve' = selected_locks[1].lock
            /\ selected_locks' = <<>>
            /\ pc' = "export_open"
            /\ UNCHANGED <<result, message>>
       ELSE /\ result' = "Error"
            /\ message' = MultipleLocksError(lf.locked_resolves, options.lockfile,
                                             selected_locks)
            /\ pc' = "done"
            /\ UNCHANGED <<locked_resolve, selected_locks>>
    /\ UNCHANGED <<options, env, lf, targets, stream, requirements, local_projects,
                   constraints, downloaded, sink, log>>

\* The decision on len(selected_locks), lines 228-267.
ExportDecide ==
    /\ pc = "export_decide"
    /\ IF Len(selected_locks) = 1
       THEN /\ locked_resolve' = selected_locks[1].lock
            /\ selected_locks' = <<>>
            /\ pc' = "export_open"
            /\ UNCHANGED <<result, message>>
       ELSE /\ result' = "Error"
            /\ message' = IF selected_locks = <<>>
                          THEN NoneApplicableError(lf.locked_resolves, options.lockfile,
                                                   targets)
                          ELSE MultipleLocksError(lf.locked_resolves, options.lockfile,
                                                  selected_locks)
            /\ pc' = "done"
            /\ UNCHANGED <<locked_resolve, selected_locks>>
    /\ UNCHANGED <<options, env, lf, targets, stream, requirements, local_projects,
                   constraints, downloaded, sink, log>>

\* with self.output(self.options) as output:
ExportOpen ==
    /\ pc = "export_open"
    /\ sink' = [sink EXCEPT !.opens = @ + 1, !.open = TRUE]
    /\ log' = Append(log, "open")
    /\ pc' = "export_emit"
    /\ UNCHANGED <<options, env, lf, targets, stream, selected_locks, locked_resolve,
                   requirements, local_projects, constraints, downloaded, result, message>>

\* locked_resolve.emit_requirements(output)
ExportEmit ==
    /\ pc = "export_emit"
    /\ sink' = [sink EXCEPT !.writes = @ + 1,
                            !.content = @ \o EmitRequirements(locked_resolve)]
    /\ log' = Append(log, "write")
    /\ pc' = "export_close"
    /\ UNCHANGED <<options, env, lf, targets, stream, selected_locks, locked_resolve,
                   requirements, local_projects, constraints, downloaded, result, message>>

\* Leaving the with block, then return Ok().
ExportClose ==
    /\ pc = "export_close"
    /\ sink' = [sink EXCEPT !.open = FALSE]
    /\ log' = Append(log, "close")
    /\ result' = "Ok"
    /\ pc' = "done"
    /\ UNCHANGED <<options, env, lf, targets, stream, selected_locks, locked_resolve,
                   requirements, local_projects, constraints, downloaded, message>>

ExportNext ==
    \/ InvokeExport
    \/ ExportCheckFormat
    \/ ExportLoad
    \/ ExportTargets
    \/ ExportSelect
    \/ ExportDecide
    \/ ExportOpen
    \/ ExportEmit
    \/ ExportClose

-----------------------------------------------------------------------------
(* pex3 lock create: Lock._create.                                         *)

\* The arguments and environment of one `create` invocation.  What a
\* collaborator would answer after an earlier one failed is left at its
\* default: it is never asked.
InvokeCreate ==
    /\ pc = "idle"
    /\ \E parsed \in SeqsUpTo(ParsedRequirements, MaxReqs),
          cons \in SeqsUpTo(ParsedConstraints, MaxConstraints),
          locks \in { s \in SeqsUpTo(LockedResolves, MaxLocks) : IsInjective(s) },
          parse_ok \in BOOLEAN, constraints_ok \in BOOLEAN, download_ok \in BOOLEAN :
            /\ ~parse_ok => parsed = <<>> /\ constraints_ok
            /\ ~constraints_ok => cons = <<>> /\ download_ok
            /\ download_ok /\ parse_ok /\ constraints_ok <=> locks # <<>>
            /\ env' = [create |->
                          [parsed |-> parsed, parse_ok |-> parse_ok,
                           parsed_constraints |-> cons,
                           constraints_ok |-> constraints_ok,
                           download_ok |-> download_ok, locked_resolves |-> locks]]
    /\ options' = [options EXCEPT !.command = "create"]
    /\ pc' = "create_parse"
    /\ UNCHANGED <<lf, targets, stream, selected_locks, locked_resolve, requirements,
                   local_projects, constraints, downloaded, sink, result, message, log>>

\* requirements.append(parsed_requirement.requirement) for the entries that
\* are no LocalProjectRequirement.
RECURSIVE PartitionRequirements(_)
PartitionRequirements(parsed) ==
    IF parsed = <<>> THEN <<>>
    ELSE (IF Head(parsed).kind = "local_project" THEN <<>>
          ELSE <<Head(parsed).requirement>>)
         \o PartitionRequirements(Tail(parsed))

\* local_projects.append(parsed_requirement) for the LocalProjectRequirement
\* entries.
RECURSIVE PartitionLocalProjects(_)
PartitionLocalProjects(parsed) ==
    IF parsed = <<>> THEN <<>>
    ELSE (IF Head(parsed).kind = "local_project" THEN <<Head(parsed)>> ELSE <<>>)
         \o PartitionLocalProjects(Tail(parsed))

\* The loop over requirement_configuration.parse_requirements(...),
\* lines 140-148; a parse failure is an exception nothing here catches.
CreateParse ==
    /\ pc = "create_parse"
    /\ log' = Append(log, "parse_requirements")
    /\ IF ~env.create.parse_ok
       THEN /\ result' = "Raised"
            /\ pc' = "done"
            /\ UNCHANGED <<requirements, local_projects>>
       ELSE /\ requirements' = PartitionRequirements(env.create.parsed)
            /\ local_projects' = PartitionLocalProjects(env.create.parsed)
            /\ pc' = "create_check"
            /\ UNCHANGED result
    /\ UNCHANGED <<options, env, lf, targets, stream, selected_locks, locked_resolve,
                   constraints, downloaded, sink, message>>

\* Variant: enumerate() without start=1.
LocalProjectsError_ZeroIndexed(projects) ==
    [kind |-> "local_projects",
     count |-> Len(projects),
     projects |-> [i \in 1..Len(projects) |->
                     [index |-> i - 1, project |-> projects[i].path]]]

\* The Error of lines 150-159.
LocalProjectsError(projects) ==
    [kind |-> "local_projects",
     count |-> Len(projects),
     projects |-> [i \in 1..Len(projects) |->
                     [index |-> i, project |-> projects[i].path]]]

\* if local_projects: return Error(...)
CreateCheckLocal ==
    /\ pc = "create_check"
    /\ IF local_projects # <<>>
       THEN /\ result' = "Error"
            /\ message' = LocalProjectsError(local_projects)
            /\ pc' = "done"
       ELSE /\ pc' = "create_constraints"
            /\ UNCHANGED <<result, message>>
    /\ UNCHANGED <<options, env, lf, targets, stream, selected_locks, locked_resolve,
                   requirements, local_projects, constraints, downloaded, sink, log>>

\* constraints = tuple(constraint.requirement for constraint in
\* requirement_configuration.parse_constraints(...))
CreateConstraints ==
    /\ pc = "create_constraints"
    /\ log' = Append(log, "parse_constraints")
    /\ IF ~env.create.constraints_ok
       THEN /\ result' = "Raised"
            /\ pc' = "done"
            /\ UNCHANGED constraints
       ELSE /\ constraints' = [i \in 1..Len(env.create.parsed_constraints) |->
                                 env.create.parsed_constraints[i].requirement]
            /\ pc' = "create_download"
            /\ UNCHANGED result
    /\ UNCHANGED <<options, env, lf, targets, stream, selected_locks, locked_resolve,
                   requirements, local_projects, downloaded, sink, message>>

\* Variant: the output is opened around the download.
CreateDownload_SinkOpenedFirst ==
    /\ pc = "create_download"
    /\ log' = log \o <<"open", "download">>
    /\ sink' = [sink EXCEPT !.opens = @ + 1, !.open = TRUE]
    /\ IF ~env.create.download_ok
       THEN /\ result' = "Raised"
            /\ pc' = "done"
            /\ UNCHANGED downloaded
       ELSE /\ downloaded' = [present |-> TRUE,
                              locked_resolves |-> env.create.locked_resolves,
                              resolved |-> ResolvedSuperset(env.create.parsed)]
            /\ pc' = "create_assemble"
            /\ UNCHANGED result
    /\ UNCHANGED <<options, env, lf, targets, stream, selected_locks, locked_resolve,
                   requirements, local_projects, constraints, message>>

\* downloaded = resolver.download(...), lines 166-189; a failed resolve is
\* an exception nothing here catches.
CreateDownload ==
    /\ pc = "create_download"
    /\ log' = Append(log, "download")
    /\ IF ~env.create.download_ok
       THEN /\ result' = "Raised"
            /\ pc' = "done"
            /\ UNCHANGED downloaded
       ELSE /\ downloaded' = [present |-> TRUE,
                              locked_resolves |-> env.create.locked_resolves,
                              resolved |-> ResolvedSuperset(env.create.parsed)]
            /\ pc' = "create_assemble"
            /\ UNCHANGED result
    /\ UNCHANGED <<options, env, lf, targets, stream, selected_locks, locked_resolve,
                   requirements, local_projects, constraints, sink, message>>

\* Variant: the document is given what download resolved.
CreateAssemble_Resolved ==
    /\ pc = "create_assemble"
    /\ lf' = LockfileCreate(downloaded.resolved, constraints, downloaded.locked_resolves)
    /\ log' = Append(log, "assemble")
    /\ pc' = "create_open"
    /\ UNCHANGED <<options, env, targets, stream, selected_locks, locked_resolve,
                   requirements, local_projects, constraints, downloaded, sink, result,
                   message>>

\* lf = Lockfile.create(requirements=requirements, constraints=constraints,
\* ..., locked_resolves=downloaded.locked_resolves)
CreateAssemble ==
    /\ pc = "create_assemble"
    /\ lf' = LockfileCreate(requirements, constraints, downloaded.locked_resolves)
    /\ log' = Append(log, "assemble")
    /\ pc' = "create_open"
    /\ UNCHANGED <<options, env, targets, stream, selected_locks, locked_resolve,
                   requirements, local_projects, constraints, downloaded, sink, result,
                   message>>

\* with self.output(self.options) as output:
CreateOpen ==
    /\ pc = "create_open"
    /\ sink' = [sink EXCEPT !.opens = @ + 1, !.open = TRUE]
    /\ log' = Append(log, "open")
    /\ pc' = "create_dump"
    /\ UNCHANGED <<options, env, lf, targets, stream, selected_locks, locked_resolve,
                   requirements, local_projects, constraints, downloaded, result, message>>

\* self.dump_json(self.options, json_codec.as_json_data(lf), output, ...)
CreateDump ==
    /\ pc = "create_dump"
    /\ sink' = [sink EXCEPT !.writes = @ + 1, !.content = Append(@, AsJsonData(lf))]
    /\ log' = Append(log, "write")
    /\ pc' = "create_close"
    /\ UNCHANGED <<options, env, lf, targets, stream, selected_locks, locked_resolve,
                   requirements, local_projects, constraints, downloaded, result, message>>

\* Leaving the with block, then return Ok().
CreateClose ==
    /\ pc = "create_close"
    /\ sink' = [sink EXCEPT !.open = FALSE]
    /\ log' = Append(log, "close")
    /\ result' = "Ok"
    /\ pc' = "done"
    /\ UNCHANGED <<options, env, lf, targets, stream, selected_locks, locked_resolve,
                   requirements, local_projects, constraints, downloaded, message>>

CreateNext ==
    \/ InvokeCreate
    \/ CreateParse
    \/ CreateCheckLocal
    \/ CreateConstraints
    \/ CreateDownload
    \/ CreateAssemble
    \/ CreateOpen
    \/ CreateDump
    \/ CreateClose

Next == ExportNext \/ CreateNext

Spec == Init /\ [][Next]_vars

-----------------------------------------------------------------------------
(* Vocabulary of the properties.                                           *)

Exporting == options.command = "export"
Creating == options.command = "create"
Returned == pc = "done"

\* An export that passes the format check and loads its lock document.
ExportLoaded ==
    Exporting /\ options.format = PIP /\ env.export.lock_state = "valid"

\* The locked resolves occurring in the pairs the selection query yielded.
StreamLocks == { stream[i][2] : i \in 1..Len(stream) }

\* The targets the selection query paired with `lock`, in stream order.
TargetsPairedWith(lock) ==
    LET hits == SelectSeq(stream, LAMBDA p : p[2] = lock)
    IN [i \in 1..Len(hits) |-> hits[i][1]]

\* Position of the first pair of the stream that carries `lock`.
FirstSeen(lock) ==
    CHOOSE i \in 1..Len(stream) :
        /\ stream[i][2] = lock
        /\ \A j \in 1..(i - 1) : stream[j][2] # lock

\* Positions of the local-project entries among the parsed requirements.
LocalPositions ==
    { i \in 1..Len(env.create.parsed) : env.create.parsed[i].kind = "local_project" }

\* Position of the j-th local-project entry.
NthLocal(j) ==
    CHOOSE i \in LocalPositions : Cardinality({ m \in LocalPositions : m <= i }) = j

\* What was called before the sink may be opened, per subcommand.
ExportPrefix == <<"load", "targets", "select", "open">>
CreatePrefix == <<"parse_requirements", "parse_constraints", "download", "assemble", "open">>

IsPrefixOfLog(p) == Len(log) >= Len(p) /\ SubSeq(log, 1, Len(p)) = p

-----------------------------------------------------------------------------
(* Properties.                                                             *)

\* C1: an export asked for a format other than 'pip' ends in the
\* unsupported-format error whatever the lock file holds and whatever the
\* targets are, and on the way the lock is never loaded, the targets are
\* never computed and the sink is never opened.
C1_UnsupportedFormatFailsFirst ==
    (Exporting /\ options.format # PIP) =>
        /\ pc \in {"export_format", "done"}
        /\ log = <<>>
        /\ ~lf.present
        /\ targets = <<>>
        /\ sink = ClosedSink
        /\ Returned =>
             /\ result = "Error"
             /\ message = [kind |-> "unsupported_format", pip |-> PIP]

C1_Witness ==
    /\ Exporting /\ Returned
    /\ options.format = PEP_665
    /\ env.export.lock_state = "malformed"
    /\ Len(env.export.targets) = 2
    /\ result = "Error"

\* C2: a create whose parsed requirements hold k >= 1 local projects never
\* calls download, assembles no document, never opens the sink, and returns
\* the Error whose count is k and whose k lines, numbered 1..k, give the
\* paths of the local projects in input order.
C2_LocalProjectsRejected ==
    (Creating /\ LocalPositions # {}) =>
        /\ pc \in {"create_parse", "create_check", "done"}
        /\ "download" \notin Range(log)
        /\ ~lf.present
        /\ sink = ClosedSink
        /\ Returned =>
             /\ result = "Error"
             /\ message.kind = "local_projects"
             /\ message.count = Cardinality(LocalPositions)
             /\ Len(message.projects) = Cardinality(LocalPositions)
             /\ \A j \in 1..Len(message.projects) :
                    /\ message.projects[j].index = j
                    /\ message.projects[j].project = env.create.parsed[NthLocal(j)].path

C2_Witness ==
    /\ Creating /\ Returned
    /\ Len(env.create.parsed) = 2
    /\ Cardinality(LocalPositions) = 2
    /\ env.create.parsed[1].path # env.create.parsed[2].path
    /\ result = "Error"

\* C3: an export that has returned either returned Ok after writing exactly
\* one stored locked resolve's requirements to the sink, or returned Error
\* having written nothing; and at no point has it written more than once.
C3_NoPartialSuccess ==
    Exporting =>
        /\ sink.writes <= 1
        /\ result = "Ok" => Returned
        /\ Returned =>
             \/ /\ result = "Ok"
                /\ sink.writes = 1
                /\ \E lock \in Range(env.export.locked_resolves) :
                       sink.content = EmitRequirements(lock)
             \/ /\ result = "Error"
                /\ sink.writes = 0
                /\ sink.content = <<>>

C3_Witness ==
    /\ Exporting /\ Returned
    /\ result = "Ok"
    /\ sink.writes = 1
    /\ Len(env.export.locked_resolves) = 2

\* C4: when the targets select two or more distinct locked resolves the
\* export returns the multiple-locks Error, whose lines are numbered 1..g
\* and stand one-to-one for the g groups, each line giving its group's
\* platform tag and exactly the targets paired with that locked resolve.
C4_MultipleLocksListed ==
    (ExportLoaded /\ Returned /\ Cardinality(StreamLocks) >= 2) =>
        /\ result = "Error"
        /\ message.kind = "multiple_locks"
        /\ Len(message.targets) = Cardinality(StreamLocks)
        /\ \E group \in [1..Len(message.targets) -> StreamLocks] :
              /\ IsInjective(group)
              /\ \A i \in 1..Len(message.targets) :
                    /\ message.targets[i].index = i
                    /\ message.targets[i].platform = group[i].platform_tag
                    /\ message.targets[i].targets = TargetsPairedWith(group[i])

C4_Witness ==
    /\ ExportLoaded /\ Returned
    /\ Cardinality(StreamLocks) = 2
    /\ Len(targets) = 2
    /\ \E lock \in StreamLocks : Len(TargetsPairedWith(lock)) = 1
    /\ message.kind = "multiple_locks"

\* C5: when no stored locked resolve applies to any target (also when
\* there is no target) the export returns the none-applicable Error, whose
\* lines are the targets numbered 1..n in order, whose count is the number
\* of stored locked resolves, and whose noun is "lock" for a count of 1
\* and "locks" otherwise.
C5_NoneApplicableReport ==
    (ExportLoaded /\ Returned
        /\ \A k \in 1..Len(env.export.targets) : env.export.applicable[k] = {}) =>
        /\ result = "Error"
        /\ message.kind = "none_applicable"
        /\ Len(message.targets) = Len(env.export.targets)
        /\ \A i \in 1..Len(message.targets) :
              message.targets[i] = [index |-> i, target |-> env.export.targets[i]]
        /\ message.count = Len(env.export.locked_resolves)
        /\ message.locks = (IF Len(env.export.locked_resolves) = 1 THEN "lock" ELSE "locks")

C5_Witness ==
    /\ ExportLoaded /\ Returned
    /\ Len(env.export.locked_resolves) = 1
    /\ Len(env.export.targets) = 2
    /\ message.kind = "none_applicable"
    /\ message.locks = "lock"

\* C6: with one stored locked resolve that applies to every one of a
\* non-empty set of targets the export returns Ok with that resolve's
\* requirements in the sink; and whenever the pairs name exactly one locked
\* resolve, that one is emitted and Ok returned, however many are stored.
C6_SingleGroupExported ==
    (ExportLoaded /\ Returned) =>
        /\ ( /\ Len(env.export.locked_resolves) = 1
             /\ env.export.targets # <<>>
             /\ \A k \in 1..Len(env.export.targets) : env.export.applicable[k] = {1} )
           => /\ result = "Ok"
              /\ sink.content = env.export.locked_resolves[1].locked
        /\ \A lock \in StreamLocks :
              StreamLocks = {lock} =>
                 /\ result = "Ok"
                 /\ locked_resolve = lock
                 /\ sink.content = lock.locked

C6_Witness ==
    /\ ExportLoaded /\ Returned
    /\ Len(env.export.locked_resolves) = 2
    /\ Cardinality(StreamLocks) = 1
    /\ Len(stream) = 2
    /\ env.export.locked_resolves[1] \notin StreamLocks
    /\ result = "Ok"

\* C7: a create whose parsed requirements hold no local project returns Ok
\* exactly when download was called and succeeded, and the document it then
\* wrote lists the parsed requirements and the parsed constraints, in their
\* order, and not what download resolved.
C7_DocumentRecordsParsedInput ==
    (Creating /\ Returned /\ LocalPositions = {}) =>
        /\ result = "Ok" <=> ("download" \in Range(log) /\ env.create.download_ok)
        /\ result = "Ok" =>
             /\ lf.present
             /\ lf.requirements =
                  [i \in 1..Len(env.create.parsed) |-> env.create.parsed[i].requirement]
             /\ lf.constraints =
                  [i \in 1..Len(env.create.parsed_constraints) |->
                     env.create.parsed_constraints[i].requirement]
             /\ lf.requirements # downloaded.resolved
             /\ lf.locked_resolves = env.create.locked_resolves
             /\ sink.content = <<AsJsonData(lf)>>

C7_Witness ==
    /\ Creating /\ Returned
    /\ result = "Ok"
    /\ Len(env.create.parsed) = 2
    /\ env.create.parsed[1] # env.create.parsed[2]
    /\ Len(env.create.parsed_constraints) = 2
    /\ env.create.parsed_constraints[1] # env.create.parsed_constraints[2]
    /\ lf.constraints = <<env.create.parsed_constraints[1].requirement,
                          env.create.parsed_constraints[2].requirement>>

\* C8: once the pairs are folded, the mapping's keys are exactly the locked
\* resolves of the pairs, each once, ordered by first occurrence among the
\* pairs, and each key's list is the targets paired with it, in the pairs'
\* order, one entry per pair.
C8_FoldIsFaithful ==
    (ExportLoaded /\ (pc = "export_decide" \/ (Returned /\ result = "Error"))) =>
        /\ { selected_locks[i].lock : i \in 1..Len(selected_locks) } = StreamLocks
        /\ Len(selected_locks) = Cardinality(StreamLocks)
        /\ \A i, j \in 1..Len(selected_locks) :
              i < j => FirstSeen(selected_locks[i].lock) < FirstSeen(selected_locks[j].lock)
        /\ \A i \in 1..Len(selected_locks) :
              selected_locks[i].targets = TargetsPairedWith(selected_locks[i].lock)

\* C9: in create and in export the sink is opened at most once, only after
\* every step that can fail was taken and succeeded, and nothing but the
\* write and the close follows; a run that returned Error or raised has
\* never opened it and has written nothing; a run that returned has it
\* closed.
C9_SinkOpenedLast ==
    /\ sink.opens <= 1
    /\ sink.open => pc \in {"export_emit", "export_close", "create_dump", "create_close"}
    /\ Returned => ~sink.open
    /\ result \in {"Error", "Raised"} => sink = ClosedSink
    /\ sink.opens = 0 => sink = ClosedSink /\ "open" \notin Range(log)
    /\ sink.opens = 1 =>
         /\ result \in {"None", "Ok"}
         /\ Exporting =>
              /\ IsPrefixOfLog(ExportPrefix)
              /\ options.format = PIP
              /\ env.export.lock_state = "valid"
              /\ lf.present
              /\ StreamLocks = {locked_resolve}
         /\ Creating =>
              /\ IsPrefixOfLog(CreatePrefix)
              /\ env.create.parse_ok
              /\ local_projects = <<>>
              /\ env.create.constraints_ok
              /\ env.create.download_ok
              /\ downloaded.present
              /\ lf.present
         /\ \A i \in 1..Len(log) :
              i > (IF Exporting THEN Len(ExportPrefix) ELSE Len(CreatePrefix)) =>
                 log[i] \in {"write", "close"}

C9_Witness ==
    /\ Creating /\ Returned
    /\ result = "Ok"
    /\ sink.opens = 1
    /\ ~sink.open
    /\ log = CreatePrefix \o <<"write", "close">>

\* C10: the multiple-locks Error lists at least 2 groups and at most as
\* many as the document stores locked resolves, every group being a stored
\* locked resolve; so its stored-lock count is at least 2 and at least the
\* number of groups, and it reads "were" and "locks".
C10_MultipleLocksCounts ==
    (Exporting /\ Returned /\ message.kind = "multiple_locks") =>
        /\ Len(message.targets) >= 2
        /\ Len(message.targets) <= Len(lf.locked_resolves)
        /\ Len(message.targets) = Len(selected_locks)
        /\ \A i \in 1..Len(selected_locks) :
              selected_locks[i].lock \in Range(lf.locked_resolves)
        /\ message.count = Len(lf.locked_resolves)
        /\ message.count >= 2
        /\ message.count >= Len(message.targets)
        /\ message.were = "were"
        /\ message.locks = "locks"

C10_Witness ==
    /\ Exporting /\ Returned
    /\ message.kind = "multiple_locks"
    /\ Len(message.targets) = 2
    /\ message.count = 2

====
